---------------------------- MODULE Spec2Model ----------------------------
(***************************************************************************)
(* KBMAPI: recovery-configuration state machine (lib/models/               *)
(* fsm-transition.js), transition orchestrator (transitioner.js),          *)
(* recovery-configuration, recovery-token and PIV-token models.            *)
(*                                                                         *)
(* Timestamps are abstracted to "set / unset" (BOOLEAN): every guard in    *)
(* the modelled code tests presence only (moray filters, 'p.staged').      *)
(* Rows of a bucket are kept in moray '_id' order (creation order), the    *)
(* default sort of model.list.                                             *)
(***************************************************************************)
EXTENDS Integers, Sequences, FiniteSets, Bags, TLC

(* ----------------------------- universe ------------------------------- *)
Cfgs == {"c1", "c2"}            \* recovery configuration uuids (template hashes)
Pivs == {"p1", "p2"}            \* PIV token guids
CnOf == [p \in Pivs |-> IF p = "p1" THEN "cn1" ELSE "cn2"]   \* PIVToken.cn_uuid
Cns == {CnOf[p] : p \in Pivs}
Instances == {"o1", "o2"}       \* config.instanceUuid of the kbmtr processes
None == "none"

MaxTr == 1          \* transition rows ever created
MaxTok == 3         \* recovery-token rows ever created
MaxInflight == 1    \* FSM-gateway requests between their reads and their writes
RaceTr == 2         \* MaxTr, where gateway requests race
RaceInflight == 2   \* MaxInflight, where gateway requests race
SeqTr == 2          \* MaxTr, where one transition follows another
MaxHist == 2        \* history rows ever inserted for one guid
BootInflight == 2   \* create and delete requests of configurations under way
MaxRows == 3        \* recovery tokens of the PIV token of a signed request
MaxCreated == 3     \* distinct 'created' timestamps of those tokens
Concurrency == 1    \* RecoveryConfigurationTransition.params.concurrency

VARIABLES
    cfg,        \* bucket kbmapi_recovery_configs: [Cfgs -> row]
    piv,        \* bucket kbmapi_piv_token: sequence of guids, in _id order
    tok,        \* bucket kbmapi_recovery_tokens: sequence of rows, in created order
    tr,         \* bucket of recovery configuration transitions, in _id order
    reqs,       \* bag of gateway requests that have read and not yet written
    orch,       \* [Instances -> context of runTransition's pipeline]
    cancelled,  \* history: transition id :> targets in flight when cancel set aborted
    rpc,        \* history: node-agent RPCs made, [t, cn, ok, late]; late: made
                \* after a cancel had set aborted on t
    hist,       \* bucket kbmapi_piv_token_history: [Pivs -> number of rows]
    pivreqs,    \* set of DELETE /pivtokens and replace requests under way
    auth        \* one PIV token's recovery tokens and a signed request for it:
                \* rows: 'created' of each row, in _id order; listed:
                \* req.pivtoken.recovery_tokens as row numbers; key: the row
                \* whose token verifies the HMAC, 0 before signatureAuth

vars == <<cfg, piv, tok, tr, reqs, orch, cancelled, rpc, hist, pivreqs, auth>>

(* ------------------------------ helpers ------------------------------- *)
Range(s) == {s[i] : i \in DOMAIN s}

RECURSIVE SeqFilterOut(_, _)
\* s.filter(function (item) { return S.indexOf(item) === -1; })
SeqFilterOut(s, S) ==
    IF s = <<>> THEN <<>>
    ELSE IF Head(s) \in S THEN SeqFilterOut(Tail(s), S)
         ELSE <<Head(s)>> \o SeqFilterOut(Tail(s), S)

RECURSIVE SumCopies(_, _)
SumCopies(B, S) ==
    IF S = {} THEN 0
    ELSE LET x == CHOOSE y \in S : TRUE
         IN CopiesIn(x, B) + SumCopies(B, S \ {x})

(* ------------------------- recovery configuration --------------------- *)
NoCfg == [created |-> FALSE, staged |-> FALSE, activated |-> FALSE, expired |-> FALSE]

getRecCfgState(p) ==
    IF ~p.created THEN "new"
    ELSE IF p.created /\ ~p.staged THEN "created"
    ELSE IF p.staged /\ ~p.activated THEN "staged"
    ELSE IF p.activated /\ ~p.expired THEN "active"
    ELSE IF p.expired THEN "expired"
    ELSE "removed"

RECOVERY_CONFIGURATION_STATIC_STATES ==
    [new |-> {"create"},
     created |-> {"stage", "destroy"},
     staged |-> {"unstage", "activate"},
     active |-> {"expire", "deactivate"},
     expired |-> {"reactivate", "destroy"},
     removed |-> {}]

FanOutActions == {"stage", "unstage", "activate", "deactivate"}
validActions == FanOutActions \cup {"expire", "reactivate", "cancel"}

(* ----------------------------- rows ----------------------------------- *)
LiveToks == {i \in DOMAIN tok : tok[i].live}
LiveTrs == {i \in DOMAIN tr : tr[i].live}

DeadTr(t) ==
    [t EXCEPT !.live = FALSE, !.completed = {}, !.errs = {},
              !.locked_by = None, !.started = FALSE, !.finished = FALSE,
              !.aborted = FALSE]

\* errs.filter(function dropEmptyObjects(anErr) {...})
dropEmptyObjects(errs) == {e \in errs : e[2] # "empty"}

IdleCtx ==
    [pc |-> "idle", tr |-> 0, fresh |-> TRUE, pend |-> <<>>, pos |-> 1,
     done |-> {}, errs |-> {}, compl |-> {}, toks |-> <<>>]

\* a write to transition row t invalidates the etag held by every pipeline
\* that listed t and has not locked it yet
StaleOrch(oc, t, writer) ==
    [p \in Instances |->
        IF p # writer /\ oc[p].tr = t /\ oc[p].pc = "picked"
        THEN [oc[p] EXCEPT !.fresh = FALSE] ELSE oc[p]]

\* a write to configuration row c invalidates the etag held by the gateway
\* requests that loaded c (only 'reactivate' puts with that etag)
StaleReqsOf(B, S) ==
    LET f(x) == IF x.cfg \in S /\ x.action = "reactivate"
                THEN [x EXCEPT !.fresh = FALSE] ELSE x
        T == {f(x) : x \in BagToSet(B)}
    IN [y \in T |-> SumCopies(B, {x \in BagToSet(B) : f(x) = y})]

StaleReqs(B, c) == StaleReqsOf(B, {c})

(* ------------------------------- Init --------------------------------- *)
NoAuth == [rows |-> <<>>, listed |-> <<>>, key |-> 0]

Init ==
    /\ cfg = [c \in Cfgs |-> NoCfg]
    /\ piv = <<>>
    /\ tok = <<>>
    /\ tr = <<>>
    /\ reqs = EmptyBag
    /\ orch = [o \in Instances |-> IdleCtx]
    /\ cancelled = <<>>
    /\ rpc = {}
    /\ hist = [p \in Pivs |-> 0]
    /\ pivreqs = {}
    /\ auth = NoAuth

(* ------------- POST /recovery-configurations (createRecoveryConfiguration) *)
createRecoveryConfiguration(c) ==
    /\ ~cfg[c].created          \* put with etag null: EtagConflictError -> 202
    /\ LET countConfigs == Cardinality({d \in Cfgs : cfg[d].created})
           countPIVTokens == Len(piv)
           born == countConfigs = 0 /\ countPIVTokens = 0
       IN cfg' = [cfg EXCEPT ![c] = [created |-> TRUE, staged |-> born,
                                     activated |-> born, expired |-> FALSE]]
    /\ reqs' = StaleReqs(reqs, c)
    /\ UNCHANGED <<piv, tok, tr, orch, cancelled, rpc, hist, pivreqs, auth>>

\* the same pipeline, one store call a step: countCfgs, countPIVTokens,
\* createCfg; a request between two of them is a member of reqs whose
\* action names the function to run next and whose snap is the row to put
NewCfg(born) ==
    [created |-> TRUE, staged |-> born, activated |-> born, expired |-> FALSE]

countCfgs(c) ==
    /\ LET countConfigs == Cardinality({d \in Cfgs : cfg[d].created})
       IN reqs' = reqs (+) SetToBag({
             [action |-> IF countConfigs # 0 THEN "createCfg"
                         ELSE "countPIVTokens",
              cfg |-> c, snap |-> NewCfg(FALSE), fresh |-> TRUE,
              targets |-> <<>>, standalone |-> FALSE, force |-> FALSE,
              tr0 |-> 0]})
    /\ UNCHANGED <<cfg, piv, tok, tr, orch, cancelled, rpc, hist, pivreqs, auth>>

countPIVTokens(r) ==
    /\ r \in BagToSet(reqs)
    /\ r.action = "countPIVTokens"
    /\ LET countPIVTokens0 == Len(piv)
       IN reqs' = (reqs (-) SetToBag({r})) (+) SetToBag({
             [r EXCEPT !.action = "createCfg",
                       !.snap = NewCfg(countPIVTokens0 = 0)]})
    /\ UNCHANGED <<cfg, piv, tok, tr, orch, cancelled, rpc, hist, pivreqs, auth>>

\* put with etag null: EtagConflictError (202) when the row is there
createCfg(r) ==
    /\ r \in BagToSet(reqs)
    /\ r.action = "createCfg"
    /\ IF cfg[r.cfg].created
       THEN /\ reqs' = reqs (-) SetToBag({r})
            /\ UNCHANGED cfg
       ELSE /\ cfg' = [cfg EXCEPT ![r.cfg] = r.snap]
            /\ reqs' = StaleReqs(reqs (-) SetToBag({r}), r.cfg)
    /\ UNCHANGED <<piv, tok, tr, orch, cancelled, rpc, hist, pivreqs, auth>>

(* ---------------- POST /pivtokens, new guid (createPIVToken) ----------- *)
\* configs[0] of the list sorted by 'created' ASC; uuids are named in
\* creation order (c2 is never created before c1)
FirstCfg(S) == IF "c1" \in S THEN "c1" ELSE "c2"

NewToken(p, c) ==
    [live |-> TRUE, piv |-> p, cfg |-> c, staged |-> cfg[c].staged,
     activated |-> cfg[c].activated, expired |-> FALSE]

createPIVToken(p, rc) ==
    /\ p \notin Range(piv)                  \* put with etag null
    /\ Len(tok) < MaxTok
    /\ LET actives == {c \in Cfgs : cfg[c].created /\ cfg[c].activated
                                    /\ ~cfg[c].expired}
       IN /\ IF rc = None THEN actives # {} ELSE cfg[rc].created
          /\ LET c == IF rc = None THEN FirstCfg(actives) ELSE rc
             IN /\ piv' = Append(piv, p)
                /\ tok' = Append(tok, NewToken(p, c))
    /\ UNCHANGED <<cfg, tr, reqs, orch, cancelled, rpc, hist, pivreqs, auth>>

(* ------- recovery_token.create for an existing PIV token -------------- *)
\* batch: expire the PIV token's tokens that are neither staged, activated
\* nor expired, then put the new token
createRecoveryTokenRows(rows, p, c) ==
    Append([i \in DOMAIN rows |->
                IF rows[i].live /\ rows[i].piv = p /\ ~rows[i].expired
                   /\ ~rows[i].activated /\ ~rows[i].staged
                THEN [rows[i] EXCEPT !.expired = TRUE] ELSE rows[i]],
           NewToken(p, c))

createRecoveryToken(p, c) ==
    /\ p \in Range(piv)
    /\ Len(tok) < MaxTok
    /\ cfg[c].created
    /\ ~cfg[c].expired
    /\ tok' = createRecoveryTokenRows(tok, p, c)
    /\ UNCHANGED <<cfg, piv, tr, reqs, orch, cancelled, rpc, hist, pivreqs, auth>>

(* ------------- POST /pivtokens for a guid that is already stored ------- *)
\* req.pivtoken.recovery_tokens is listed by 'created' ASC, the order the
\* rows were put in; its last member is the newest
Max(S) == CHOOSE x \in S : \A y \in S : x >= y

latestToken(p) ==
    tok[Max({i \in DOMAIN tok : tok[i].live /\ tok[i].piv = p})]

\* the test that answers 200 with the stored PIV token; rc = None is a
\* request without recovery_configuration (undefined === uuid is false)
retrievesPivtoken(p, rc, within) ==
    within /\ rc = latestToken(p).cfg

createPivtoken(p, rc, within) ==
    /\ p \in Range(piv)
    /\ \E i \in DOMAIN tok : tok[i].live /\ tok[i].piv = p
    /\ IF retrievesPivtoken(p, rc, within)
       THEN UNCHANGED vars
       ELSE createRecoveryToken(p, IF rc = None THEN latestToken(p).cfg
                                   ELSE rc)

(* ------------- signatureAuth: the key of an HMAC-signed request -------- *)
\* recovery_token.create with params.created: the row gets the next _id
putRecoveryToken(created) ==
    /\ Len(auth.rows) < MaxRows
    /\ auth' = [auth EXCEPT !.rows = Append(@, created)]
    /\ UNCHANGED <<cfg, piv, tok, tr, reqs, orch, cancelled, rpc, hist, pivreqs>>

Perms(n) ==
    {f \in [1..n -> 1..n] : \A i, j \in 1..n : i # j => f[i] # f[j]}

\* model.list with no sort option: _id ASC
listRecoveryTokensById(rows) == {[i \in 1..Len(rows) |-> i]}

\* recovery_token.ls: sort {attribute: 'created', order: 'ASC'}; rows with
\* the same 'created' come in either order
listRecoveryTokens(rows) ==
    {f \in Perms(Len(rows)) :
        \A i, j \in 1..Len(rows) : i < j => rows[f[i]] <= rows[f[j]]}

\* a.created - b.created: both are ISO 8601 strings, the difference is NaN,
\* which sort takes as 0
compareCreated(a, b) == 0

\* Array.prototype.sort by insertion: a member moves left past another only
\* when the comparison is positive
RECURSIVE insertInto(_, _, _)
insertInto(sorted, x, rows) ==
    IF sorted # <<>> /\ compareCreated(rows[sorted[Len(sorted)]], rows[x]) > 0
    THEN Append(insertInto(SubSeq(sorted, 1, Len(sorted) - 1), x, rows),
                sorted[Len(sorted)])
    ELSE Append(sorted, x)

RECURSIVE sortTokens(_, _)
sortTokens(listed, rows) ==
    IF listed = <<>> THEN <<>>
    ELSE insertInto(sortTokens(SubSeq(listed, 1, Len(listed) - 1), rows),
                    listed[Len(listed)], rows)

preloadPivtoken ==
    /\ auth.rows # <<>>
    /\ \E l \in listRecoveryTokens(auth.rows) :
          auth' = [auth EXCEPT !.listed = l, !.key = 0]
    /\ UNCHANGED <<cfg, piv, tok, tr, reqs, orch, cancelled, rpc, hist, pivreqs>>

signatureAuth ==
    /\ auth.listed # <<>>
    /\ auth.key = 0
    /\ LET reqTokens == sortTokens(auth.listed, auth.rows)
       IN auth' = [auth EXCEPT !.listed = reqTokens,
                               !.key = reqTokens[Len(reqTokens)]]
    /\ UNCHANGED <<cfg, piv, tok, tr, reqs, orch, cancelled, rpc, hist, pivreqs>>

(* ------------- DELETE /pivtokens/:guid, POST /pivtokens/:guid/replace -- *)
DeadTok(t) ==
    [t EXCEPT !.live = FALSE, !.staged = FALSE, !.activated = FALSE,
              !.expired = FALSE]

\* the endpoint has loaded req.pivtoken and calls archiveAndDeletePivtoken;
\* by is the guid of the replacement (None for a plain delete), rc its
\* recovery_configuration parameter
archiveAndDeletePivtoken(p, by, rc) ==
    /\ p \in Range(piv)
    /\ by # p
    /\ by = None => rc = None
    /\ ~\E r \in pivreqs : r.guid = p      \* one request per guid at a time
    /\ pivreqs' = pivreqs \cup
          {[guid |-> p, by |-> by, rc |-> rc, pc |-> "archive"]}
    /\ UNCHANGED <<cfg, piv, tok, tr, reqs, orch, cancelled, rpc, hist, auth>>

\* mod_pivtoken_history.create
createTkHistory(r) ==
    /\ r \in pivreqs
    /\ r.pc = "archive"
    /\ hist[r.guid] < MaxHist
    /\ hist' = [hist EXCEPT ![r.guid] = @ + 1]
    /\ pivreqs' = (pivreqs \ {r}) \cup {[r EXCEPT !.pc = "del"]}
    /\ UNCHANGED <<cfg, piv, tok, tr, reqs, orch, cancelled, rpc, auth>>

\* mod_pivtoken.del: one batch deleting the PIV token and the recovery
\* tokens with pivtoken = guid
deletePIVToken(r) ==
    /\ r \in pivreqs
    /\ r.pc = "del"
    /\ piv' = SelectSeq(piv, LAMBDA g : g # r.guid)
    /\ tok' = [i \in DOMAIN tok |->
                 IF tok[i].piv = r.guid THEN DeadTok(tok[i]) ELSE tok[i]]
    /\ pivreqs' = IF r.by = None THEN pivreqs \ {r}
                  ELSE (pivreqs \ {r}) \cup {[r EXCEPT !.pc = "create"]}
    /\ UNCHANGED <<cfg, tr, reqs, orch, cancelled, rpc, hist, auth>>

\* replacePivtoken's delCb: mod_pivtoken.create with the request's params;
\* next(createErr) when the create fails
replacePivtoken(r) ==
    /\ r \in pivreqs
    /\ r.pc = "create"
    /\ pivreqs' = pivreqs \ {r}
    /\ LET actives == {c \in Cfgs : cfg[c].created /\ cfg[c].activated
                                    /\ ~cfg[c].expired}
           ok == /\ r.by \notin Range(piv)
                 /\ IF r.rc = None THEN actives # {} ELSE cfg[r.rc].created
       IN IF ok
          THEN /\ Len(tok) < MaxTok
               /\ piv' = Append(piv, r.by)
               /\ tok' = Append(tok, NewToken(r.by,
                            IF r.rc = None THEN FirstCfg(actives) ELSE r.rc))
          ELSE UNCHANGED <<piv, tok>>
    /\ UNCHANGED <<cfg, tr, reqs, orch, cancelled, rpc, hist, auth>>

\* a store call of the request is called back with an error (or the
\* process ends): the endpoint passes the error on and does nothing more
pivtokenRequestFails(r) ==
    /\ r \in pivreqs
    /\ pivreqs' = pivreqs \ {r}
    /\ UNCHANGED <<cfg, piv, tok, tr, reqs, orch, cancelled, rpc, hist, auth>>

(* ------------- DELETE /recovery-configurations/:uuid ------------------ *)
\* the test deleteRecoveryConfiguration makes on the row it has read
InvalidConfigurationState(rec) ==
    (rec.staged \/ rec.activated) /\ ~rec.expired

\* what the endpoint answers once the row is read
deleteResponse(c) ==
    IF ~cfg[c].created THEN 404
    ELSE IF InvalidConfigurationState(cfg[c]) THEN 412
    ELSE 204

\* getRecoveryConfiguration and the test of the row; the request is left
\* with model.del to do
deleteRecoveryConfiguration(c) ==
    /\ cfg[c].created
    /\ ~InvalidConfigurationState(cfg[c])
    /\ reqs' = reqs (+) SetToBag({
          [action |-> "destroy", cfg |-> c, snap |-> cfg[c], fresh |-> TRUE,
           targets |-> <<>>, standalone |-> FALSE, force |-> FALSE,
           tr0 |-> 0]})
    /\ UNCHANGED <<cfg, piv, tok, tr, orch, cancelled, rpc, hist, pivreqs, auth>>

\* model.del: delObj by key, with no etag
deleteModel(r) ==
    /\ r \in BagToSet(reqs)
    /\ r.action = "destroy"
    /\ cfg' = [cfg EXCEPT ![r.cfg] = NoCfg]
    /\ reqs' = StaleReqs(reqs (-) SetToBag({r}), r.cfg)
    /\ UNCHANGED <<piv, tok, tr, orch, cancelled, rpc, hist, pivreqs, auth>>

(* ------------- FSM gateway: transition(opts, cb), read phase ---------- *)
\* targets of the batch slice a pipeline is working on
Slice(oc) ==
    {oc.pend[i] : i \in {j \in DOMAIN oc.pend :
                            j >= oc.pos /\ j < oc.pos + Concurrency}}

\* a getTransitions whose filter lacks (!(aborted=true))
getTransitionsAbortedToo(c, action) ==
    {i \in LiveTrs : /\ tr[i].cfg = c
                     /\ action = "cancel" \/ tr[i].name = action
                     /\ ~tr[i].finished}

\* a getTransitions whose filter matches no row
getTransitionsNoMatch(c, action) == {}

\* getTransitions: unfinished, not aborted transitions of c named 'action'
\* (any name for 'cancel')
getTransitions(c, action) ==
    {i \in LiveTrs : /\ tr[i].cfg = c
                     /\ action = "cancel" \/ tr[i].name = action
                     /\ ~tr[i].aborted
                     /\ ~tr[i].finished}

Min(S) == CHOOSE x \in S : \A y \in S : x <= y

\* getAllTargets: cn_uuid of every PIV token, in list order
getAllTargets == [i \in DOMAIN piv |-> CnOf[piv[i]]]

\* the pipeline up to getTransitions without checkValidTransition's test
checkValidTransitionAnyState(c, action, tgt, force) ==
    IF ~cfg[c].created THEN "ResourceNotFound"
    ELSE IF tgt # None /\ tgt \notin Range(piv)
    THEN "ResourceNotFound"
    ELSE IF tgt # None /\ 1 # Len(piv) /\ (action # "activate" \/ ~force)
    THEN "Invalid 'targets' parameter"
    ELSE IF /\ action = "activate"
            /\ ~force
            /\ Cardinality({i \in LiveToks : tok[i].cfg = c /\ tok[i].staged})
                  < Len(piv)
    THEN "Missing parameter"
    ELSE None

\* the error of the first pipeline step, getCfg .. checkValidTransition,
\* that calls next(err) for this request, or None
checkValidTransition(c, action, tgt, force) ==
    IF ~cfg[c].created THEN "ResourceNotFound"                     \* getCfg
    ELSE IF tgt # None /\ tgt \notin Range(piv)
    THEN "ResourceNotFound"                                   \* getPivtoken
    ELSE IF tgt # None /\ 1 # Len(piv) /\ (action # "activate" \/ ~force)
    THEN "Invalid 'targets' parameter"                      \* countPIVTokens
    ELSE IF /\ action = "activate"
            /\ ~force
            /\ Cardinality({i \in LiveToks : tok[i].cfg = c /\ tok[i].staged})
                  < Len(piv)
    THEN "Missing parameter"                     \* countStagedRecoveryTokens
    ELSE IF /\ action # "cancel"
            /\ action \notin
                  RECOVERY_CONFIGURATION_STATIC_STATES[getRecCfgState(cfg[c])]
    THEN "Invalid action parameter"
    ELSE None

\* getCfg .. getAllTargets: the request passes every check and is left
\* with its writes to do.  tgt is the 'pivtoken' parameter (or None).
transition(c, action, tgt, force) ==
    /\ checkValidTransition(c, action, tgt, force) = None
    /\ LET found == getTransitions(c, action)
           transitioning == found # {}
       IN /\ action = "cancel" => transitioning
          /\ action # "cancel" => ~transitioning    \* else 'Transition already exists'
          /\ reqs' = reqs (+) SetToBag({
                [action |-> action, cfg |-> c, snap |-> cfg[c],
                 fresh |-> TRUE,
                 targets |-> IF tgt = None THEN getAllTargets
                             ELSE <<CnOf[tgt]>>,
                 standalone |-> tgt # None,
                 force |-> force,
                 tr0 |-> IF transitioning THEN Min(found) ELSE 0]})
    /\ UNCHANGED <<cfg, piv, tok, tr, orch, cancelled, rpc, hist, pivreqs, auth>>

\* pipeCb: what the caller of transition() is called back with.  A pipeline
\* error comes alone; 'Transition already exists' comes with the
\* configuration and transitions[0].
pipeCb(c, action, tgt, force) ==
    LET pipeErr == checkValidTransition(c, action, tgt, force)
        lsItems == getTransitions(c, action)
    IN IF pipeErr # None
       THEN [err |-> pipeErr, recoveryConfiguration |-> None, transition |-> 0]
       ELSE IF lsItems = {} /\ action = "cancel"
       THEN [err |-> "Invalid action parameter",
             recoveryConfiguration |-> None, transition |-> 0]
       ELSE IF lsItems # {} /\ action # "cancel"
       THEN [err |-> "Transition already exists",
             recoveryConfiguration |-> c, transition |-> Min(lsItems)]
       ELSE [err |-> None, recoveryConfiguration |-> c, transition |-> 0]

(* ------------- FSM gateway: write phase ------------------------------- *)
NewTransition(r) ==
    [live |-> TRUE, cfg |-> r.cfg, name |-> r.action, targets |-> r.targets,
     standalone |-> r.standalone, completed |-> {}, errs |-> {},
     locked_by |-> None,
     started |-> r.targets = <<>>, finished |-> r.targets = <<>>,
     aborted |-> FALSE]

\* updateCfgWhenThereAreNoTargets
updateCfgWhenThereAreNoTargets(row, action) ==
    IF action = "stage" THEN [row EXCEPT !.staged = TRUE]
    ELSE [row EXCEPT !.activated = TRUE]

createTransition(r) ==
    /\ r \in BagToSet(reqs)
    /\ r.action \in FanOutActions
    /\ tr' = Append(tr, NewTransition(r))
    /\ cfg' = IF r.targets = <<>> /\ cfg[r.cfg].created
              THEN [cfg EXCEPT ![r.cfg] =
                        updateCfgWhenThereAreNoTargets(cfg[r.cfg], r.action)]
              ELSE cfg
    /\ reqs' = IF r.targets = <<>> /\ cfg[r.cfg].created
               THEN StaleReqs(reqs (-) SetToBag({r}), r.cfg)
               ELSE reqs (-) SetToBag({r})
    /\ UNCHANGED <<piv, tok, orch, cancelled, rpc, hist, pivreqs, auth>>

\* a 'reactivate' whose batch holds no put of a recovery token
removeTransitionsOnly(r) ==
    /\ r \in BagToSet(reqs)
    /\ r.action = "reactivate"
    /\ IF r.fresh
       THEN /\ cfg' = [cfg EXCEPT ![r.cfg] =
                          [r.snap EXCEPT !.staged = FALSE, !.activated = FALSE,
                                         !.expired = FALSE]]
            /\ tr' = [i \in DOMAIN tr |->
                        IF tr[i].cfg = r.cfg THEN DeadTr(tr[i]) ELSE tr[i]]
            /\ reqs' = StaleReqs(reqs (-) SetToBag({r}), r.cfg)
       ELSE /\ reqs' = reqs (-) SetToBag({r})
            /\ UNCHANGED <<cfg, tr>>
    /\ UNCHANGED <<tok, piv, orch, cancelled, rpc, hist, pivreqs, auth>>

\* 'reactivate': one batch, conditional on the etag of the loaded row
removeTransitions(r) ==
    /\ r \in BagToSet(reqs)
    /\ r.action = "reactivate"
    /\ IF r.fresh
       THEN /\ cfg' = [cfg EXCEPT ![r.cfg] =
                          [r.snap EXCEPT !.staged = FALSE, !.activated = FALSE,
                                         !.expired = FALSE]]
            /\ tr' = [i \in DOMAIN tr |->
                        IF tr[i].cfg = r.cfg THEN DeadTr(tr[i]) ELSE tr[i]]
            /\ tok' = [i \in DOMAIN tok |->
                        IF tok[i].live /\ tok[i].cfg = r.cfg
                        THEN [tok[i] EXCEPT !.staged = FALSE,
                                  !.activated = FALSE, !.expired = FALSE]
                        ELSE tok[i]]
            /\ reqs' = StaleReqs(reqs (-) SetToBag({r}), r.cfg)
       ELSE /\ reqs' = reqs (-) SetToBag({r})           \* EtagConflictError
            /\ UNCHANGED <<cfg, tr, tok>>
    /\ UNCHANGED <<piv, orch, cancelled, rpc, hist, pivreqs, auth>>

\* 'expire': one batch, unconditional put of the loaded row plus 'expired'
upConfig(r) ==
    /\ r \in BagToSet(reqs)
    /\ r.action = "expire"
    /\ cfg' = [cfg EXCEPT ![r.cfg] = [r.snap EXCEPT !.expired = TRUE]]
    /\ tok' = [i \in DOMAIN tok |->
                IF tok[i].live /\ tok[i].cfg = r.cfg /\ ~tok[i].expired
                THEN [tok[i] EXCEPT !.expired = TRUE] ELSE tok[i]]
    /\ reqs' = StaleReqs(reqs (-) SetToBag({r}), r.cfg)
    /\ UNCHANGED <<piv, tr, orch, cancelled, rpc, hist, pivreqs, auth>>

\* 'cancel': aborted = true on the first transition found by the read phase
cancelTransition(r) ==
    /\ r \in BagToSet(reqs)
    /\ r.action = "cancel"
    /\ reqs' = reqs (-) SetToBag({r})
    /\ IF tr[r.tr0].live
       THEN /\ tr' = [tr EXCEPT ![r.tr0].aborted = TRUE]
            /\ orch' = StaleOrch(orch, r.tr0, None)
            /\ cancelled' =
                 IF r.tr0 \in DOMAIN cancelled \/ tr[r.tr0].finished
                 THEN cancelled
                 ELSE cancelled @@ (r.tr0 :>
                        UNION {Slice(orch[o]) : o \in
                                 {q \in Instances : orch[q].tr = r.tr0
                                                    /\ orch[q].pc = "batch"}})
       ELSE UNCHANGED <<tr, orch, cancelled>>          \* row gone: update error
    /\ UNCHANGED <<cfg, piv, tok, rpc, hist, pivreqs, auth>>

(* ------------- orchestrator: KbmApiTransitioner.run ------------------- *)
\* run(): runTransition called back with an error while self.currTr is set:
\* the transition is updated with aborted and finished, unconditionally
runTrErr(rows, t) ==
    IF rows[t].live
    THEN [rows EXCEPT ![t].aborted = TRUE, ![t].finished = TRUE]
    ELSE rows

\* skipAlreadyTransitionedTokens reads tk.staged, tk.activated, tk.pivtoken
\* and p.cn_uuid, none of which is a property of the model objects, so that
\* no target is ever dropped
skipAlreadyTransitionedTokens(pending) == pending


RECURSIVE createRecoveryTokens(_, _, _)
createRecoveryTokens(rows, missing, c) ==
    IF missing = {} THEN rows
    ELSE LET p == CHOOSE q \in missing : TRUE
         IN createRecoveryTokens(createRecoveryTokenRows(rows, p, c),
                                 missing \ {p}, c)

\* getPendingTransitions .. skipAlreadyTransitionedTokens
getPendingTransitions(o) ==
    /\ orch[o].pc = "idle"
    /\ LET lsItems == {i \in LiveTrs : ~tr[i].finished /\ ~tr[i].aborted}
       IN /\ lsItems # {}
          /\ LET t == Min(lsItems)
                 c == tr[t].cfg
                 pendingTargets == SeqFilterOut(tr[t].targets, tr[t].completed)
                 targetPIVTokens == {p \in Range(piv) :
                                        CnOf[p] \in Range(pendingTargets)}
                 lsTokens == {i \in LiveToks : tok[i].cfg = c
                                    /\ tok[i].piv \in targetPIVTokens}
                 existingGuids == {tok[i].piv : i \in lsTokens}
                 missingGuids ==
                    IF Cardinality(lsTokens) = Len(pendingTargets) THEN {}
                    ELSE targetPIVTokens \ existingGuids
             IN /\ Len(tok) + Cardinality(missingGuids) <= MaxTok
                /\ IF pendingTargets = <<>>
                   THEN \* createRecoveryTokens reads ctx.targetPIVTokens,
                        \* never set: TypeError, the process exits
                        /\ orch' = [orch EXCEPT ![o].pc = "exited"]
                        /\ UNCHANGED <<tr, tok>>
                   ELSE IF \/ missingGuids # {} /\ cfg[c].expired
                           \/ ~cfg[c].created
                   THEN \* recovery_token.create fails: next(createErr);
                        \* getRecoveryConfiguration fails: next(getErr)
                        /\ tr' = runTrErr(tr, t)
                        /\ orch' = StaleOrch(orch, t, o)
                        /\ UNCHANGED tok
                   ELSE /\ tok' = createRecoveryTokens(tok, missingGuids, c)
                        /\ orch' = [orch EXCEPT ![o] =
                             [IdleCtx EXCEPT
                                !.pc = "picked", !.tr = t,
                                !.pend = skipAlreadyTransitionedTokens(
                                            pendingTargets),
                                !.toks = [p \in existingGuids \cup missingGuids
                                    |-> Max({i \in DOMAIN tok' :
                                              /\ tok'[i].live
                                              /\ tok'[i].cfg = c
                                              /\ tok'[i].piv = p})]]]
                        /\ UNCHANGED tr
    /\ UNCHANGED <<cfg, piv, reqs, cancelled, rpc, hist, pivreqs, auth>>

\* lockBeforeRun: put conditional on the etag read by getPendingTransitions
lockBeforeRun(o) ==
    /\ orch[o].pc = "picked"
    /\ LET t == orch[o].tr
       IN IF tr[t].live /\ orch[o].fresh
          THEN /\ tr' = [tr EXCEPT ![t].locked_by = o, ![t].started = TRUE]
               /\ orch' = [StaleOrch(orch, t, o) EXCEPT ![o] =
                             [orch[o] EXCEPT
                                !.pc = "batch", !.pos = 1, !.done = {},
                                !.errs = dropEmptyObjects(tr[t].errs),
                                !.compl = tr[t].completed]]
          ELSE /\ tr' = runTrErr(tr, t)          \* EtagConflictError
               /\ orch' = [StaleOrch(orch, t, o) EXCEPT ![o] = IdleCtx]
    /\ UNCHANGED <<cfg, piv, tok, reqs, cancelled, rpc, hist, pivreqs, auth>>

(* ------------- orchestrator: processPendingTargets -------------------- *)
TaskOutcomes == {"complete", "posterr", "waiterr", "badstatus"}

\* recovery_token.update as issued on behalf of the node agent once its task
\* ran: val is {staged} for 'stage', {activated} for 'activate'.  Siblings
\* of the same PIV token matching the action's filter are expired in the
\* same batch.
updateRecoveryToken(rows, k, action) ==
    [i \in DOMAIN rows |->
        IF i = k
        THEN IF action = "stage" THEN [rows[i] EXCEPT !.staged = TRUE]
             ELSE [rows[i] EXCEPT !.activated = TRUE]
        ELSE IF /\ rows[i].live
                /\ rows[i].piv = rows[k].piv
                /\ ~rows[i].expired
                /\ action = "stage" => ~rows[i].activated
             THEN [rows[i] EXCEPT !.expired = TRUE]
             ELSE rows[i]]

\* the error pushed to errs, as it reads once stored: a plain Error
\* serialises to the empty object
taskErr(cn, outcome) ==
    IF outcome = "badstatus" THEN <<cn, "empty">> ELSE <<cn, "structured">>

\* a taskCb that drops the error
pushTaskErrDropped(errs, cn, outcome) == errs

\* doTask's taskCb: if (taskErr) { errs.push(taskErr); } nextTask();
pushTaskErr(errs, cn, outcome) ==
    IF outcome = "complete" THEN errs ELSE errs \cup {taskErr(cn, outcome)}

GuidOfCn(cn) == CHOOSE p \in Pivs : CnOf[p] = cn

\* doTask: createTask (cnapi.post) then waitForTask, for one CN of the batch
doTask(o, cn, outcome) ==
    /\ orch[o].pc = "batch"
    /\ cn \in Slice(orch[o]) \ orch[o].done
    /\ LET t == orch[o].tr
           pivGuid == GuidOfCn(cn)
       IN IF pivGuid \notin DOMAIN orch[o].toks
          THEN \* recTokensByGuid[pivGuid] undefined: TypeError, process exits
               /\ outcome = "complete"
               /\ orch' = [orch EXCEPT ![o] = IdleCtx]
               /\ UNCHANGED <<tok, rpc>>
          ELSE /\ orch' = [orch EXCEPT ![o] =
                    [orch[o] EXCEPT
                        !.done = @ \cup {cn},
                        !.errs = pushTaskErr(@, cn, outcome)]]
               /\ tok' = IF /\ outcome = "complete"
                            /\ tr[t].name \in {"stage", "activate"}
                            /\ tok[orch[o].toks[pivGuid]].live
                         THEN updateRecoveryToken(tok, orch[o].toks[pivGuid],
                                                  tr[t].name)
                         ELSE tok
               /\ rpc' = rpc \cup {[t |-> t, cn |-> cn,
                                      ok |-> outcome = "complete",
                                      late |-> t \in DOMAIN cancelled]}
    /\ UNCHANGED <<cfg, piv, tr, reqs, cancelled, hist, pivreqs, auth>>

\* doBatch going on to the next batch whatever the row says
stopAfterBatchNever(upTr) == FALSE

\* if (upTr.params.aborted): no further batch
stopAfterBatch(upTr) == upTr.aborted

\* doBatch's batchCb: record the batch, stop if the transition was aborted
batchCb(o) ==
    /\ orch[o].pc = "batch"
    /\ Slice(orch[o]) \subseteq orch[o].done
    /\ LET t == orch[o].tr
           completed == orch[o].compl \cup Slice(orch[o])
           last == orch[o].pos + Concurrency > Len(orch[o].pend)
       IN IF ~tr[t].live
          THEN /\ orch' = [orch EXCEPT ![o] = IdleCtx]    \* update error
               /\ UNCHANGED tr
          ELSE /\ tr' = [tr EXCEPT ![t].completed = completed,
                                   ![t].errs = orch[o].errs]
               /\ orch' = [StaleOrch(orch, t, o) EXCEPT ![o] =
                    IF stopAfterBatch(tr'[t]) THEN IdleCtx \* AlreadyDoneError
                    ELSE [orch[o] EXCEPT
                            !.compl = completed, !.done = {},
                            !.pos = @ + Concurrency,
                            !.pc = IF last THEN "complete" ELSE "batch"]]
    /\ UNCHANGED <<cfg, piv, tok, reqs, cancelled, rpc, hist, pivreqs, auth>>

\* a completeTransition that goes on without writing finished
completeTransitionUnwritten(o) ==
    /\ orch[o].pc = "complete"
    /\ LET t == orch[o].tr
       IN IF ~tr[t].live
          THEN orch' = [orch EXCEPT ![o] = IdleCtx]
          ELSE orch' = [orch EXCEPT ![o] =
                    [orch[o] EXCEPT !.pc = "advance", !.errs = tr[t].errs]]
    /\ UNCHANGED <<tr, cfg, piv, tok, reqs, cancelled, rpc, hist, pivreqs, auth>>

completeTransition(o) ==
    /\ orch[o].pc = "complete"
    /\ LET t == orch[o].tr
       IN IF ~tr[t].live
          THEN /\ orch' = [orch EXCEPT ![o] = IdleCtx]    \* update error
               /\ UNCHANGED tr
          ELSE /\ tr' = [tr EXCEPT ![t].finished = TRUE]
               /\ orch' = [StaleOrch(orch, t, o) EXCEPT ![o] =
                    [orch[o] EXCEPT !.pc = "advance", !.errs = tr[t].errs]]
    /\ UNCHANGED <<cfg, piv, tok, reqs, cancelled, rpc, hist, pivreqs, auth>>

(* ------------- orchestrator: the process ends and is started again ---- *)
\* the process ends (signal, uncaught exception, reboot) once batchCb has
\* stored the last batch and before completeTransition writes finished
crashProcess(o) ==
    /\ orch[o].pc = "complete"
    /\ orch' = [orch EXCEPT ![o].pc = "exited"]
    /\ UNCHANGED <<cfg, piv, tok, tr, reqs, cancelled, rpc, hist, pivreqs, auth>>

\* the listing of pending transitions fails (lsErr) on a pass of a process
\* that has picked no transition yet: no transition row was ever written, so
\* self.currTr, assigned only when a listed row is picked, is still unset.
\* pipeCb hands the error to runTrCb, which logs it and returns: neither
\* runTransition() nor setTimeout is called, the process stays up
lsErr(o) ==
    /\ orch[o].pc = "idle"
    /\ tr = <<>>
    /\ orch' = [orch EXCEPT ![o].pc = "stopped"]
    /\ UNCHANGED <<cfg, piv, tok, tr, reqs, cancelled, rpc, hist, pivreqs, auth>>

\* the service is started again: 'initialized', then run()
startProcess(o) ==
    /\ orch[o].pc = "exited"
    /\ orch' = [orch EXCEPT ![o] = IdleCtx]
    /\ UNCHANGED <<cfg, piv, tok, tr, reqs, cancelled, rpc, hist, pivreqs, auth>>

(* ------------- orchestrator: last steps of the pipeline --------------- *)
\* the update made by changeRecoveryConfigurationState for transition 'name'
advanceCfg(row, name) ==
    IF name = "stage" THEN [row EXCEPT !.staged = TRUE]
    ELSE IF name = "activate" THEN [row EXCEPT !.activated = TRUE]
    ELSE IF name = "deactivate" THEN [row EXCEPT !.activated = FALSE]
    ELSE [row EXCEPT !.staged = FALSE]

\* changeRecoveryConfigurationState without its check of errs
skipChangeIgnoringErrs(standalone, trErrs) == standalone

\* changeRecoveryConfigurationState without its check of standalone
skipChangeIgnoringStandalone(standalone, trErrs) ==
    dropEmptyObjects(trErrs) # {}

\* changeRecoveryConfigurationState returns early for a standalone
\* transition and for one whose errs, empty objects dropped, is not empty
skipChange(standalone, trErrs) ==
    standalone \/ dropEmptyObjects(trErrs) # {}

changeRecoveryConfigurationState(o) ==
    /\ orch[o].pc = "advance"
    /\ LET t == orch[o].tr
           c == tr[t].cfg
       IN IF skipChange(tr[t].standalone, orch[o].errs)
          THEN /\ orch' = [orch EXCEPT ![o].pc = "sweep"]
               /\ UNCHANGED <<cfg, reqs, tr>>
          ELSE IF ~cfg[c].created
          THEN \* recovery_configuration.update fails: next(upErr)
               /\ tr' = runTrErr(tr, t)
               /\ orch' = [StaleOrch(orch, t, o) EXCEPT ![o] = IdleCtx]
               /\ UNCHANGED <<cfg, reqs>>
          ELSE /\ cfg' = [cfg EXCEPT ![c] = advanceCfg(cfg[c], tr[t].name)]
               /\ reqs' = StaleReqs(reqs, c)
               /\ orch' = [orch EXCEPT ![o].pc = "sweep"]
               /\ UNCHANGED tr
    /\ UNCHANGED <<piv, tok, cancelled, rpc, hist, pivreqs, auth>>

\* lsConfigs passes its filter outside opts.params, so that model.list
\* returns every configuration
lsConfigs == {c \in Cfgs : cfg[c].created}

\* a filter that drops a configuration when one of its expired tokens had
\* been activated
filterEmptyConfigsStaged(S) ==
    {c \in S : LET tokens == {i \in LiveToks : tok[i].cfg = c}
               IN tokens # {} /\ \A i \in tokens : tok[i].expired /\ ~tok[i].activated}

\* filterEmptyConfigs: configurations with tokens, all of them expired
filterEmptyConfigs(S) ==
    {c \in S : LET tokens == {i \in LiveToks : tok[i].cfg = c}
               IN tokens # {} /\ \A i \in tokens : tok[i].expired}

expireUnusedRecoveryConfigs(o) ==
    /\ orch[o].pc = "sweep"
    /\ LET S == filterEmptyConfigs(lsConfigs)
       IN /\ cfg' = [c \in Cfgs |-> IF c \in S
                                    THEN [cfg[c] EXCEPT !.expired = TRUE]
                                    ELSE cfg[c]]
          /\ reqs' = StaleReqsOf(reqs, S)
    /\ orch' = [orch EXCEPT ![o] = IdleCtx]
    /\ UNCHANGED <<piv, tok, tr, cancelled, rpc, hist, pivreqs, auth>>

(* ------------- /pivtokens/:guid/recovery-tokens[/:uuid] ---------------- *)
\* registerEndpoints: the routes whose chain holds mod_auth.signatureAuth
SignedRoutes == {"listtokens", "createtoken", "gettoken", "updatetoken",
                 "deltoken"}
Routes == SignedRoutes \cup {"updatetokensstate"}

\* a request gets to the handler of its route when signatureAuth is not in
\* the chain or has verified its signature (9e key, HMAC or admin key)
served(route, verified) == route \in SignedRoutes => verified

TokOf(p) == {i \in LiveToks : tok[i].piv = p}

\* POST /pivtokens/:guid/recovery-tokens
createtoken(p, c, verified) ==
    /\ served("createtoken", verified)
    /\ TokOf(p) # {}
    /\ createRecoveryToken(p, IF c = None THEN latestToken(p).cfg ELSE c)

\* recovery_token.update with val in one batch: the action is 'expire' when
\* val holds expired, else 'activate' when it holds activated, else 'stage'
updateModelAlone(rows, k, val) ==
    [rows EXCEPT ![k] = [f \in DOMAIN rows[k] |->
                            IF f \in val THEN TRUE ELSE rows[k][f]]]

updateModel(rows, k, val) ==
    LET put == [f \in DOMAIN rows[k] |->
                   IF f \in val THEN TRUE ELSE rows[k][f]]
    IN IF "expired" \in val THEN [rows EXCEPT ![k] = put]
       ELSE [updateRecoveryToken(rows, k,
                 IF "activated" \in val THEN "activate" ELSE "stage")
             EXCEPT ![k] = put]

\* PUT /pivtokens/:guid/recovery-tokens/:uuid; ok: the batch went through
\* (its put carries the etag of the row just read)
updatetoken(p, k, val, verified, ok) ==
    /\ served("updatetoken", verified)
    /\ p \in Range(piv)
    /\ k \in LiveToks
    /\ IF ok THEN tok' = updateModel(tok, k, val) ELSE UNCHANGED tok
    /\ UNCHANGED <<cfg, piv, tr, reqs, orch, cancelled, rpc, hist, pivreqs, auth>>

\* DELETE /pivtokens/:guid/recovery-tokens/:uuid
deltoken(p, k, verified) ==
    /\ served("deltoken", verified)
    /\ p \in Range(piv)
    /\ k \in LiveToks
    /\ tok' = [tok EXCEPT ![k] = DeadTok(tok[k])]
    /\ UNCHANGED <<cfg, piv, tr, reqs, orch, cancelled, rpc, hist, pivreqs, auth>>

\* _setActiveAndOrStaged: the updates of one batch, applied in order
setStagedOps(rows, stagedCfg, k) ==
    [i \in DOMAIN rows |->
        IF ~rows[i].live THEN rows[i]
        ELSE IF i = k
        THEN IF rows[i].cfg = stagedCfg /\ ~rows[i].staged /\ ~rows[i].expired
             THEN [rows[i] EXCEPT !.staged = TRUE] ELSE rows[i]
        ELSE IF rows[i].staged /\ ~rows[i].expired
             THEN [rows[i] EXCEPT !.expired = TRUE] ELSE rows[i]]

setActiveOps(rows, activeCfg) ==
    LET activated == [i \in DOMAIN rows |->
            IF /\ rows[i].live /\ rows[i].cfg = activeCfg
               /\ rows[i].staged /\ ~rows[i].activated
            THEN [rows[i] EXCEPT !.activated = TRUE] ELSE rows[i]]
    IN [i \in DOMAIN rows |->
            IF /\ activated[i].live /\ activated[i].staged
               /\ activated[i].activated /\ ~activated[i].expired
            THEN [activated[i] EXCEPT !.expired = TRUE] ELSE activated[i]]

setActiveAndOrStaged(rows, activeCfg, stagedCfg, k) ==
    LET staged == IF stagedCfg # None THEN setStagedOps(rows, stagedCfg, k)
                  ELSE rows
    IN IF activeCfg # None THEN setActiveOps(staged, activeCfg) ELSE staged

\* PUT /pivtokens/:guid/recovery-tokens: zpool_recovery.active,
\* zpool_recovery.staged and recovery_token (0: not given)
updatetokensstate(p, active, staged, k, verified) ==
    /\ served("updatetokensstate", verified)
    /\ p \in Range(piv)
    /\ k \in DOMAIN tok \cup {0}
    /\ LET stagedCfg == IF k # 0 THEN staged ELSE None
       IN tok' = setActiveAndOrStaged(tok, active, stagedCfg, k)
    /\ UNCHANGED <<cfg, piv, tr, reqs, orch, cancelled, rpc, hist, pivreqs, auth>>

(* ------------------------------- Next --------------------------------- *)
\* a request admitted by the gateway; at most maxInflight requests are
\* between their reads and their writes and at most maxTr rows are created
GatewayRead(maxInflight, maxTr) ==
    \E c \in Cfgs, action \in validActions, tgt \in Pivs \cup {None},
       force \in BOOLEAN :
        /\ BagCardinality(reqs) < maxInflight
        /\ action \in FanOutActions => Len(tr) + BagCardinality(reqs) < maxTr
        /\ force => action = "activate"
        /\ transition(c, action, tgt, force)

GatewayWrite ==
    \/ \E r \in BagToSet(reqs) : createTransition(r)
    \/ \E r \in BagToSet(reqs) : removeTransitions(r)
    \/ \E r \in BagToSet(reqs) : upConfig(r)
    \/ \E r \in BagToSet(reqs) : cancelTransition(r)

\* uuids and guids are named in creation order
ApiCreate(C) ==
    \/ \E c \in C : /\ c = "c2" => cfg["c1"].created
                    /\ createRecoveryConfiguration(c)
    \/ \E p \in Pivs, rc \in C \cup {None} :
            /\ p = "p2" => "p1" \in Range(piv)
            /\ createPIVToken(p, rc)

ApiToken(C) ==
    \E p \in Pivs, c \in C : createRecoveryToken(p, c)

Transitioner(o) ==
    \/ getPendingTransitions(o)
    \/ lockBeforeRun(o)
    \/ \E cn \in Cns, outcome \in TaskOutcomes : doTask(o, cn, outcome)
    \/ batchCb(o)
    \/ completeTransition(o)
    \/ changeRecoveryConfigurationState(o)
    \/ expireUnusedRecoveryConfigs(o)

ApiPivtoken(C) ==
    \/ \E p \in Pivs, by \in Pivs \cup {None}, rc \in C \cup {None} :
            archiveAndDeletePivtoken(p, by, rc)
    \/ \E r \in pivreqs : createTkHistory(r)
    \/ \E r \in pivreqs : deletePIVToken(r)
    \/ \E r \in pivreqs : replacePivtoken(r)
    \/ \E r \in pivreqs : pivtokenRequestFails(r)

ApiDelete(C) ==
    \/ \E c \in C : /\ BagCardinality(reqs) < MaxInflight
                    /\ deleteRecoveryConfiguration(c)
    \/ \E r \in BagToSet(reqs) : deleteModel(r)

\* one kbmtr instance, gateway requests one at a time
Next ==
    \/ GatewayRead(MaxInflight, MaxTr)
    \/ GatewayWrite
    \/ ApiCreate(Cfgs)
    \/ ApiToken(Cfgs)
    \/ Transitioner("o1")

Spec == Init /\ [][Next]_vars

\* gateway requests for one configuration racing each other, no
\* orchestrator step
NextRace ==
    \/ GatewayRead(RaceInflight, RaceTr)
    \/ GatewayWrite
    \/ ApiCreate({"c1"})

SpecRace == Init /\ [][NextRace]_vars

\* two kbmtr instances working for one configuration
NextMulti ==
    \/ GatewayRead(MaxInflight, MaxTr)
    \/ GatewayWrite
    \/ ApiCreate({"c1"})
    \/ \E o \in Instances : Transitioner(o)

SpecMulti == Init /\ [][NextMulti]_vars

\* one configuration taken through two transitions in a row by one instance
NextSeq ==
    \/ GatewayRead(MaxInflight, SeqTr)
    \/ GatewayWrite
    \/ ApiCreate({"c1"})
    \/ Transitioner("o1")

SpecSeq == Init /\ [][NextSeq]_vars

\* the API alone, no orchestrator running: gateway requests one after
\* another, PIV tokens and recovery tokens created
NextApi ==
    \/ GatewayRead(MaxInflight, SeqTr)
    \/ GatewayWrite
    \/ ApiCreate({"c1"})
    \/ ApiToken({"c1"})

SpecApi == Init /\ [][NextApi]_vars

\* a second configuration staged and then activated for the fleet by one
\* instance, each transition followed by the sweep
NextSweep ==
    \/ \E c \in Cfgs, action \in {"stage", "activate"} :
          /\ BagCardinality(reqs) < MaxInflight
          /\ Len(tr) + BagCardinality(reqs) < SeqTr
          /\ transition(c, action, None, FALSE)
    \/ \E r \in BagToSet(reqs) : createTransition(r)
    \/ ApiCreate(Cfgs)
    \/ Transitioner("o1")

SpecSweep == Init /\ [][NextSweep]_vars

\* the recovery-token endpoints of the PIV tokens, no transition
ValSets == SUBSET {"staged", "activated", "expired"}

NextTok ==
    \/ ApiCreate(Cfgs)
    \/ \E p \in Pivs, c \in Cfgs \cup {None}, verified \in BOOLEAN :
          createtoken(p, c, verified)
    \/ \E p \in Pivs, k \in 1..MaxTok, val \in ValSets,
          verified \in BOOLEAN, ok \in BOOLEAN :
          updatetoken(p, k, val, verified, ok)
    \/ \E p \in Pivs, k \in 1..MaxTok, verified \in BOOLEAN :
          deltoken(p, k, verified)
    \/ \E p \in Pivs, active \in Cfgs \cup {None}, staged \in Cfgs \cup {None},
          k \in 0..MaxTok, verified \in BOOLEAN :
          updatetokensstate(p, active, staged, k, verified)

SpecTok == Init /\ [][NextTok]_vars

\* configurations created by requests that may overlap, deleted, and PIV
\* tokens created with a configuration named
NextBoot ==
    \/ \E c \in Cfgs : /\ BagCardinality(reqs) < BootInflight
                       /\ countCfgs(c)
    \/ \E r \in BagToSet(reqs) : countPIVTokens(r)
    \/ \E r \in BagToSet(reqs) : createCfg(r)
    \/ \E p \in Pivs, rc \in Cfgs : createPIVToken(p, rc)
    \/ ApiDelete(Cfgs)

SpecBoot == Init /\ [][NextBoot]_vars

NextAuth ==
    \/ \E created \in 1..MaxCreated : putRecoveryToken(created)
    \/ preloadPivtoken
    \/ signatureAuth

SpecAuth == Init /\ [][NextAuth]_vars

\* PIV tokens created, deleted and replaced; no transition
NextPiv ==
    \/ ApiCreate(Cfgs)
    \/ ApiPivtoken(Cfgs)
    \/ \E p \in Pivs, rc \in Cfgs \cup {None}, within \in BOOLEAN :
            createPivtoken(p, rc, within)

SpecPiv == Init /\ [][NextPiv]_vars

\* one configuration that is deleted and created again, one instance
NextDel ==
    \/ GatewayRead(MaxInflight, MaxTr)
    \/ GatewayWrite
    \/ ApiCreate({"c1"})
    \/ ApiDelete({"c1"})
    \/ Transitioner("o1")

SpecDel == Init /\ [][NextDel]_vars

\* run() re-arms itself after every pass (setTimeout with pollInterval, or
\* at once when more transitions are pending) and a request admitted by the
\* gateway runs its pipeline to the end
FairSpec ==
    Init /\ [][Next]_vars /\ WF_vars(Transitioner("o1")) /\ WF_vars(GatewayWrite)

\* one instance whose process may end in the middle of a transition and is
\* started again whenever it has ended
NextCrash ==
    \/ Next
    \/ crashProcess("o1")
    \/ startProcess("o1")

SpecCrash == Init /\ [][NextCrash]_vars

FairCrash ==
    /\ SpecCrash
    /\ WF_vars(Transitioner("o1"))
    /\ WF_vars(GatewayWrite)
    /\ WF_vars(startProcess("o1"))

\* one instance whose listing of pending transitions may fail
NextLoop ==
    \/ Next
    \/ lsErr("o1")

SpecLoop == Init /\ [][NextLoop]_vars

(* ------------------------------ claims -------------------------------- *)
\* C1: in every reachable state, for any pair (recovery_config_uuid, name)
\* there is at most one transition row with neither finished nor aborted
\* set.  Two requests of the same action that both pass getTransitions
\* before either runs createTransition break it.
C1_OneUnfinishedPerName ==
    \A c \in Cfgs, n \in FanOutActions :
        Cardinality({t \in LiveTrs : /\ tr[t].cfg = c
                                     /\ tr[t].name = n
                                     /\ ~tr[t].finished
                                     /\ ~tr[t].aborted}) <= 1

\* the edges of the recovery configurations lifecycle
FsmEdges ==
    {<<"created", "staged">>, <<"staged", "created">>, <<"staged", "active">>,
     <<"active", "staged">>, <<"active", "expired">>, <<"expired", "created">>}

\* C2: the derived state of an existing configuration changes only along
\* the edges of the lifecycle FSM, whatever the interleaving of gateway
\* actions, orchestrator steps and sweeps.
C2_OnlyFsmEdges ==
    [][\A c \in Cfgs : cfg[c].created =>
            \/ getRecCfgState(cfg'[c]) = getRecCfgState(cfg[c])
            \/ <<getRecCfgState(cfg[c]), getRecCfgState(cfg'[c])>> \in FsmEdges
      ]_vars

C4_OneInstanceAtATime ==
    [][\A a, b \in Instances :
            (/\ a # b
             /\ orch[a].pc \in {"batch", "complete"}
             /\ orch[b].tr = orch[a].tr
             /\ orch[b].pc = "batch")
            => /\ orch'[b].done \subseteq orch[b].done
               /\ orch'[b] # orch[b] =>
                    tr'[orch[a].tr].completed = tr[orch[a].tr].completed
      ]_vars

\* C5: once a cancel has set aborted on transition T, no node-agent task is
\* posted for a target outside the batch that was in flight at that moment
\* (rpc records posted after the cancel are marked late; cancelled[T] is the
\* batch in flight when aborted was set).
C5_NoBatchAfterCancel ==
    \A x \in rpc : x.late => x.cn \in cancelled[x.t]

\* a two-target transition cancelled during its first batch: the batch was
\* recorded and the orchestrator stopped, the second target never served
C5_Witness ==
    \E t \in DOMAIN cancelled :
        /\ cancelled[t] # {}
        /\ tr[t].live /\ tr[t].aborted /\ ~tr[t].finished
        /\ Len(tr[t].targets) = 2
        /\ tr[t].completed = cancelled[t]
        /\ orch["o1"].pc = "idle"

\* C6: cancel does not change the configuration's derived state: neither
\* the cancel that sets aborted on an unfinished transition, nor any later
\* orchestrator step for that transition, changes the configuration's
\* staged, activated or expired field.
C6_CancelKeepsCfg ==
    [][/\ cancelled' # cancelled => cfg' = cfg
       /\ \A o \in Instances :
            (/\ orch[o].pc \notin {"idle", "sweep"}
             /\ orch'[o] # orch[o]
             /\ orch[o].tr \in DOMAIN cancelled)
            => cfg' = cfg
      ]_vars

\* C7: every transition that a cancel aborted while it was unfinished
\* eventually has finished set by the orchestrator (or its row is deleted
\* together with its configuration's transitions).
C7_AbortedEventuallyFinished ==
    \A t \in 1..MaxTr :
        (t \in DOMAIN cancelled)
            ~> (t \in DOMAIN tr /\ (tr[t].finished \/ ~tr[t].live))

\* C8: a node-agent RPC failure for one target never fails the whole
\* transition.  On every step an instance takes while in its batches or about
\* to finish: a failed task leaves its error in errs, the batch goes on and
\* the row is not touched; no such step marks the transition aborted;
\* batchCb stores the errors and, unless the row was aborted by a cancel,
\* goes on with the same pending targets; and the pipeline gets past
\* completeTransition with finished set and every pending target completed.
C8_RpcFailureDoesNotFail ==
    [][\A o \in Instances :
         LET t == orch[o].tr IN
         (/\ orch[o].pc \in {"batch", "complete"}
          /\ reqs' = reqs
          /\ orch'[o] # orch[o])
         => /\ \A x \in rpc' \ rpc :
                 ~x.ok => /\ \E e \in orch'[o].errs : e[1] = x.cn
                          /\ orch'[o].pc = "batch"
                          /\ orch'[o].pend = orch[o].pend
                          /\ tr' = tr
            /\ tr[t].live => tr'[t].aborted = tr[t].aborted
            /\ (orch[o].pc = "batch" /\ tr' # tr)
                 => /\ orch[o].errs \subseteq tr'[t].errs
                    /\ ~tr'[t].aborted
                         => /\ orch'[o].pc \in {"batch", "complete"}
                            /\ orch'[o].pend = orch[o].pend
            /\ orch'[o].pc = "advance"
                 => /\ tr'[t].finished
                    /\ Range(orch[o].pend) \subseteq tr'[t].completed
      ]_vars

\* a two-target transition whose task for the first target failed: both
\* targets were processed, the error is stored and the row is finished and
\* not aborted
C8_Witness ==
    \E t \in LiveTrs :
        /\ tr[t].finished /\ ~tr[t].aborted
        /\ Len(tr[t].targets) = 2
        /\ Range(tr[t].targets) \subseteq tr[t].completed
        /\ \E x \in rpc :
              /\ x.t = t /\ ~x.ok /\ x.cn = tr[t].targets[1]
              /\ <<x.cn, "structured">> \in tr[t].errs

\* C9: a standalone transition (requested for one PIV token) never changes
\* the configuration: the request that creates its row leaves configurations
\* and recovery tokens alone, and every orchestrator step taken for it, from
\* the pick to changeRecoveryConfigurationState, leaves every configuration
\* as it is and changes or creates recovery tokens of its target only.
C9_StandaloneKeepsCfg ==
    [][/\ (Len(tr') > Len(tr) /\ tr'[Len(tr')].standalone)
            => cfg' = cfg /\ tok' = tok
       /\ \A o \in Instances :
            LET t == IF orch[o].pc = "idle" THEN orch'[o].tr ELSE orch[o].tr
            IN (/\ orch'[o] # orch[o]
                /\ BagCardinality(reqs') = BagCardinality(reqs)
                /\ orch[o].pc # "sweep"
                /\ t # 0
                /\ tr[t].standalone)
               => /\ cfg' = cfg
                  /\ \A i \in DOMAIN tok' :
                        (i \notin DOMAIN tok \/ tok'[i] # tok[i])
                        => CnOf[tok'[i].piv] \in Range(tr[t].targets)
      ]_vars

\* a standalone 'stage' has completed without errors: the target's recovery
\* token is staged, the configuration is not
C9_Witness ==
    \E t \in LiveTrs :
        /\ tr[t].standalone /\ tr[t].name = "stage"
        /\ tr[t].finished /\ ~tr[t].aborted /\ tr[t].errs = {}
        /\ ~cfg[tr[t].cfg].staged
        /\ orch["o1"].pc = "sweep" /\ orch["o1"].tr = t
        /\ \E i \in LiveToks :
              /\ tok[i].cfg = tr[t].cfg /\ tok[i].staged
              /\ CnOf[tok[i].piv] \in Range(tr[t].targets)

\* C10: for every configuration whose derived state is expired, every
\* recovery token that references it has expired set.
C10_ExpiredCfgExpiredTokens ==
    \A c \in Cfgs :
        (cfg[c].created /\ getRecCfgState(cfg[c]) = "expired")
        => \A i \in LiveToks : tok[i].cfg = c => tok[i].expired

\* C11: for every PIV token P and configuration C, at most one recovery
\* token of (P, C) has staged set and expired unset.
C11_OneStagedTokenPerPair ==
    \A i, j \in LiveToks :
        (/\ tok[i].piv = tok[j].piv /\ tok[i].cfg = tok[j].cfg
         /\ tok[i].staged /\ ~tok[i].expired
         /\ tok[j].staged /\ ~tok[j].expired)
        => i = j

\* C12: for every PIV token P and configuration C, at most one recovery
\* token of (P, C) has activated set and expired unset.
C12_OneActivatedTokenPerPair ==
    \A i, j \in LiveToks :
        (/\ tok[i].piv = tok[j].piv /\ tok[i].cfg = tok[j].cfg
         /\ tok[i].activated /\ ~tok[i].expired
         /\ tok[j].activated /\ ~tok[j].expired)
        => i = j

\* C13: when a configuration C becomes active, every PIV token of the fleet
\* at that moment has a recovery token for C with activated set.
C13_ActiveCfgActivatedTokens ==
    [][\A c \in Cfgs :
         (/\ cfg[c].created
          /\ getRecCfgState(cfg[c]) # "active"
          /\ getRecCfgState(cfg'[c]) = "active")
         => \A p \in Range(piv') :
               \E i \in DOMAIN tok' :
                  /\ tok'[i].live /\ tok'[i].piv = p /\ tok'[i].cfg = c
                  /\ tok'[i].activated
      ]_vars

\* C14: without force, an activate request on configuration C is admitted
\* only if every PIV token of the fleet has a recovery token for C with
\* staged set.
C14_ActivateNeedsAllStaged ==
    [][\A r \in BagToSet(reqs') :
         (/\ CopiesIn(r, reqs') > CopiesIn(r, reqs)
          /\ r.action = "activate"
          /\ ~r.force)
         => \A p \in Range(piv) :
               \E i \in LiveToks :
                  tok[i].piv = p /\ tok[i].cfg = r.cfg /\ tok[i].staged
      ]_vars

\* the target state of a recovery token under each action, as listed in
\* filterTokens
TokenInTargetState(trAction, tk) ==
    IF trAction = "stage" THEN tk.staged
    ELSE IF trAction = "activate" THEN tk.staged /\ tk.activated
    ELSE IF trAction = "deactivate" THEN tk.staged /\ ~tk.activated
    ELSE ~tk.staged

\* C15: a target whose recovery token already matches the transition's
\* target state is removed from pending when the transition is picked, and
\* is not sent a node-agent task.
C15_DoneTargetsSkipped ==
    [][\A o \in Instances :
         (orch[o].pc = "idle" /\ orch'[o].pc = "picked")
         => LET t == orch'[o].tr IN
            \A cn \in Range(orch'[o].pend) :
               ~\E i \in DOMAIN tok' :
                   /\ tok'[i].live
                   /\ tok'[i].cfg = tr[t].cfg
                   /\ CnOf[tok'[i].piv] = cn
                   /\ TokenInTargetState(tr[t].name, tok'[i])
      ]_vars

\* C16: for every transition with finished set, completed contains every
\* target of the transition that has no error recorded in errs.
C16_FinishedCoversTargets ==
    \A t \in LiveTrs :
        tr[t].finished
        => \A cn \in Range(tr[t].targets) :
              \/ cn \in tr[t].completed
              \/ \E e \in tr[t].errs : e[1] = cn

\* the state each fleet action leads a configuration to
ActionTargetState(action) ==
    IF action = "stage" THEN "staged"
    ELSE IF action = "activate" THEN "active"
    ELSE IF action = "deactivate" THEN "staged"
    ELSE "created"

\* C17: when an instance takes up a non-standalone transition whose pending
\* set is empty (every target already completed), its step leaves the
\* transition finished and the configuration in the action's target state.
C17_EmptyPendingFinishesAndAdvances ==
    [][\A o \in Instances :
         LET lsItems == {i \in LiveTrs : ~tr[i].finished /\ ~tr[i].aborted}
         IN (/\ orch[o].pc = "idle"
             /\ orch'[o] # orch[o]
             /\ lsItems # {}
             /\ ~tr[Min(lsItems)].standalone
             /\ SeqFilterOut(tr[Min(lsItems)].targets,
                             tr[Min(lsItems)].completed) = <<>>)
            => LET t == Min(lsItems) IN
               /\ tr'[t].finished
               /\ getRecCfgState(cfg'[tr[t].cfg]) = ActionTargetState(tr[t].name)
      ]_vars

\* C18: when a fleet action is accepted with no targets derivable, the
\* transition row is created started and finished and the same gateway
\* operation leaves the configuration in the action's target state (stage:
\* staged; activate: active; deactivate: staged; unstage: created).
C18_NoTargetsAdvancesCfg ==
    [][(/\ Len(tr') = Len(tr) + 1
        /\ tr'[Len(tr')].targets = <<>>)
       => LET row == tr'[Len(tr')] IN
          /\ row.started
          /\ row.finished
          /\ getRecCfgState(cfg'[row.cfg]) = ActionTargetState(row.name)
      ]_vars

\* C19: whenever an instance writes a configuration-state advance on
\* behalf of a transition, the stored row of that transition already has
\* finished set.
C19_AdvanceAfterFinished ==
    [][\A o \in Instances :
         (/\ orch[o].pc = "advance"
          /\ orch'[o].pc = "sweep"
          /\ cfg' # cfg)
         => /\ tr[orch[o].tr].live
            /\ tr[orch[o].tr].finished
      ]_vars

\* an advance has been written: the instance is past
\* changeRecoveryConfigurationState for a finished, error-free fleet-wide
\* 'deactivate' and the configuration is no longer active
C19_Witness ==
    \E o \in Instances :
        /\ orch[o].pc = "sweep"
        /\ orch[o].tr \in LiveTrs
        /\ tr[orch[o].tr].finished
        /\ ~tr[orch[o].tr].standalone
        /\ tr[orch[o].tr].name = "deactivate"
        /\ getRecCfgState(cfg[tr[orch[o].tr].cfg]) = "staged"

\* the unfinished, non-aborted transitions named N stored for c
Unfinished(c, N) ==
    {i \in LiveTrs : /\ tr[i].cfg = c
                     /\ tr[i].name = N
                     /\ ~tr[i].finished
                     /\ ~tr[i].aborted}

\* the request is answered 'Transition already exists' together with the
\* configuration and an unfinished transition named N, and the step taken
\* leaves no request for N on c with writes to do
RejectedAsExisting(c, N, tgt, force) ==
    /\ pipeCb(c, N, tgt, force).err = "Transition already exists"
    /\ pipeCb(c, N, tgt, force).recoveryConfiguration = c
    /\ pipeCb(c, N, tgt, force).transition \in Unfinished(c, N)
    /\ \A r \in BagToSet(reqs') :
          (r.cfg = c /\ r.action = N) => CopiesIn(r, reqs') <= CopiesIn(r, reqs)

\* C20 as stated: while an unfinished, non-aborted transition named N exists
\* for configuration c, every further request for N on c, whatever its
\* targets, is rejected with 'Transition already exists' returned together
\* with the existing transition and the configuration, and creates nothing.
C20_EveryRequestRejectedAsExisting ==
    [][\A c \in Cfgs, N \in FanOutActions, tgt \in Range(piv) \cup {None},
          force \in BOOLEAN :
          (Unfinished(c, N) # {} /\ (force => N = "activate"))
          => RejectedAsExisting(c, N, tgt, force)
      ]_vars

\* C20, amended: while an unfinished, non-aborted transition named N exists
\* for configuration c, every further request for N on c that passes the
\* gateway's earlier checks (target subset, staged recovery tokens, action
\* allowed in the configuration's state) is rejected with 'Transition
\* already exists' returned together with the existing transition and the
\* configuration, and creates nothing.
C20_CheckedRequestRejectedAsExisting ==
    [][\A c \in Cfgs, N \in FanOutActions, tgt \in Range(piv) \cup {None},
          force \in BOOLEAN :
          (/\ Unfinished(c, N) # {}
           /\ force => N = "activate"
           /\ checkValidTransition(c, N, tgt, force) = None)
          => RejectedAsExisting(c, N, tgt, force)
      ]_vars

\* an 'activate' is under way for one CN and a forced 'activate' for the
\* other CN is answered 'Transition already exists' with that transition
C20_Witness ==
    \E c \in Cfgs, tgt \in Range(piv) :
        /\ Unfinished(c, "activate") # {}
        /\ \A i \in Unfinished(c, "activate") :
              CnOf[tgt] \notin Range(tr[i].targets)
        /\ checkValidTransition(c, "activate", tgt, TRUE) = None
        /\ pipeCb(c, "activate", tgt, TRUE).err = "Transition already exists"
        /\ pipeCb(c, "activate", tgt, TRUE).transition
              \in Unfinished(c, "activate")

\* the messages of the errors the gateway builds with
\* errors.InvalidParamsError
InvalidParamsError ==
    {"Invalid 'targets' parameter", "Missing parameter",
     "Invalid action parameter"}

C24_DeleteOnlyUnused ==
    [][/\ \A c \in Cfgs :
           /\ getRecCfgState(cfg[c]) \in {"staged", "active"}
              => /\ deleteResponse(c) = 412
                 /\ \A r \in BagToSet(reqs') :
                       (r.cfg = c /\ r.action = "destroy")
                       => CopiesIn(r, reqs') <= CopiesIn(r, reqs)
           /\ getRecCfgState(cfg[c]) = "expired" => deleteResponse(c) = 204
       /\ \A r \in BagToSet(reqs') :
           (/\ r.action = "destroy" /\ r.fresh
            /\ CopiesIn(r, reqs') > CopiesIn(r, reqs))
           => getRecCfgState(r.snap) \in {"created", "expired"}
      ]_vars

\* C25: only a configuration that is not in use by any compute node is
\* removed: no step removes a configuration while a recovery token that
\* references it is staged or activated and not expired.
C25_DeleteOnlyWhenNoTokenInUse ==
    [][\A c \in Cfgs :
         (cfg[c].created /\ ~cfg'[c].created)
         => ~\E i \in LiveToks :
                /\ tok[i].cfg = c
                /\ tok[i].staged \/ tok[i].activated
                /\ ~tok[i].expired
      ]_vars

\* C26: deleting a PIV token is atomic: a step inserts a history row for
\* guid p if and only if it removes the PIV token row of p, and a step that
\* does so leaves no recovery token with pivtoken = p; so that in no state,
\* whatever fails between the steps of a request, the history row exists
\* without the rows being removed.
C26_DeleteIsAtomic ==
    [][\A p \in Pivs :
         /\ hist'[p] > hist[p] <=> (p \in Range(piv) /\ p \notin Range(piv'))
         /\ hist'[p] > hist[p]
            => ~\E i \in DOMAIN tok' : tok'[i].live /\ tok'[i].piv = p
      ]_vars

\* C27: replacing a PIV token is an atomic delete and create: every step
\* that removes the PIV token row of a replace request leaves the
\* replacement stored, so that in no state, a failing create included, the
\* replaced PIV token is removed while the replacement does not exist.
C27_ReplaceIsAtomic ==
    [][\A r \in pivreqs :
         (/\ r.by # None
          /\ r.guid \in Range(piv)
          /\ r.guid \notin Range(piv'))
         => r.by \in Range(piv')
      ]_vars

\* C28: a create request for a stored PIV token made within
\* recoveryTokenDuration of its newest recovery token, naming that token's
\* configuration or naming none, changes no stored row.
C28_RepeatedCreateUnchanged ==
    [][\A p \in Range(piv), rc \in Cfgs \cup {None} :
          (/\ createPivtoken(p, rc, TRUE)
           /\ rc \in {None, latestToken(p).cfg})
          => UNCHANGED <<piv, tok, cfg>>
      ]_vars


C30_BornActiveIffFirst ==
    [][\A c \in Cfgs :
          (~cfg[c].created /\ cfg'[c].created)
          => /\ cfg'[c].staged = cfg'[c].activated
             /\ ~cfg'[c].expired
             /\ cfg'[c].activated
                <=> /\ \A d \in Cfgs \ {c} : ~cfg[d].created
                    /\ Len(piv) = 0
      ]_vars

\* C31: a PIV token row (and its first recovery token) is stored only by a
\* step taken while some configuration has activated set and expired unset.
C31_NewPivtokenNeedsActiveCfg ==
    [][(\E p \in Pivs : p \in Range(piv') /\ p \notin Range(piv))
       => \E c \in Cfgs : cfg[c].created /\ cfg[c].activated /\ ~cfg[c].expired
      ]_vars

\* the configurations the sweep is to expire: activated, not expired, and
\* every recovery token that references them expired
Unused(c) ==
    /\ cfg[c].created /\ cfg[c].activated /\ ~cfg[c].expired
    /\ \A i \in LiveToks : tok[i].cfg = c => tok[i].expired

\* C32 as stated: the step that completes a sweep leaves expired set on every
\* configuration that was activated, not expired, and had every referencing
\* recovery token expired.
C32_SweepExpiresUnused ==
    [][\A o \in Instances :
          (orch[o].pc = "sweep" /\ orch'[o].pc = "idle")
          => \A c \in Cfgs : Unused(c) => cfg'[c].expired
      ]_vars

\* C32, amended: the same for the configurations that are referenced by at
\* least one recovery token.
C32_SweepExpiresUnusedWithTokens ==
    [][\A o \in Instances :
          (orch[o].pc = "sweep" /\ orch'[o].pc = "idle")
          => \A c \in Cfgs :
                (Unused(c) /\ \E i \in LiveToks : tok[i].cfg = c)
                => cfg'[c].expired
      ]_vars

\* the second configuration has been staged and activated for the fleet, the
\* tokens of the first one are all expired and the sweep that followed has
\* expired the first configuration
C32_Witness ==
    /\ orch["o1"].pc = "idle"
    /\ cfg["c2"].activated /\ ~cfg["c2"].expired
    /\ cfg["c1"].activated /\ cfg["c1"].expired
    /\ \E i \in LiveToks : tok[i].cfg = "c1"
    /\ \A i \in LiveToks : tok[i].cfg = "c1" => tok[i].expired
    /\ \A t \in LiveTrs : tr[t].finished

\* the siblings a write of token k supersedes: on creation those neither
\* staged, activated nor expired; on staging those staged and not activated;
\* on activation those activated
Superseded(p, what) ==
    {i \in TokOf(p) :
        /\ ~tok[i].expired
        /\ CASE what = "create" -> ~tok[i].staged /\ ~tok[i].activated
             [] what = "stage" -> tok[i].staged /\ ~tok[i].activated
             [] OTHER -> tok[i].activated}

\* C33: a step of recovery_token.create or recovery_token.update that stages
\* or activates a token either changes no recovery token, or leaves the token
\* written and every sibling it supersedes expired.
C33_SupersedeInOneBatch ==
    [][/\ \A p \in Range(piv), c \in Cfgs \cup {None} :
            createtoken(p, c, TRUE)
            => /\ Len(tok') = Len(tok) + 1
               /\ tok'[Len(tok')].live /\ tok'[Len(tok')].piv = p
               /\ \A i \in Superseded(p, "create") : tok'[i].expired
       /\ \A k \in LiveToks, ok \in BOOLEAN,
             val \in {{"staged"}, {"activated"}, {"staged", "activated"}} :
            updatetoken(tok[k].piv, k, val, TRUE, ok)
            => \/ UNCHANGED tok
               \/ /\ \A f \in val : tok'[k][f]
                  /\ \A i \in Superseded(tok[k].piv,
                                IF "activated" \in val THEN "activate"
                                ELSE "stage") \ {k} : tok'[i].expired
      ]_vars

\* a PIV token has a token that is staged and in force next to a sibling
\* that was staged, never activated, and is expired
C33_Witness ==
    \E i, j \in LiveToks :
        /\ i # j /\ tok[i].piv = tok[j].piv
        /\ tok[j].staged /\ ~tok[j].expired
        /\ tok[i].staged /\ ~tok[i].activated /\ tok[i].expired

\* C34: no step removes the row of a recovery token that is staged or
\* activated and not expired.
C34_TokenInUseNotDeleted ==
    [][\A k \in LiveToks :
          ((tok[k].staged \/ tok[k].activated) /\ ~tok[k].expired)
          => tok'[k].live
      ]_vars

\* C35: a request to a recovery-token route of an existing PIV token whose
\* signature has not been verified changes no recovery-token row.
C35_UnverifiedChangesNoToken ==
    [][\A p \in Range(piv) :
          (\/ \E c \in Cfgs \cup {None} : createtoken(p, c, FALSE)
           \/ \E k \in LiveToks, val \in ValSets, ok \in BOOLEAN :
                 updatetoken(p, k, val, FALSE, ok)
           \/ \E k \in LiveToks : deltoken(p, k, FALSE)
           \/ \E active \in Cfgs \cup {None}, staged \in Cfgs \cup {None},
                 k \in DOMAIN tok \cup {0} :
                 updatetokensstate(p, active, staged, k, FALSE))
          => UNCHANGED tok
      ]_vars

\* the tokens a step sets expired on
NewlyExpired == {i \in LiveToks : ~tok[i].expired /\ tok'[i].expired}

\* C39: staging or activating a recovery token of PIV token p, by the
\* single-token update or by the bulk state update, sets expired only on
\* other tokens of p: not on a token of another PIV token, not on the token
\* staged or activated.
C39_ExpiresOnlySiblings ==
    [][\A p \in Range(piv) :
          /\ \A k \in TokOf(p), ok \in BOOLEAN,
                val \in {{"staged"}, {"activated"}, {"staged", "activated"}} :
                updatetoken(p, k, val, TRUE, ok)
                => \A i \in NewlyExpired : tok[i].piv = p /\ i # k
          /\ \A active \in Cfgs \cup {None}, staged \in Cfgs \cup {None},
                k \in TokOf(p) \cup {0}, verified \in BOOLEAN :
                updatetokensstate(p, active, staged, k, verified)
                => \A i \in NewlyExpired :
                      /\ tok[i].piv = p
                      /\ staged # None => i # k
                      /\ ~(~tok[i].activated /\ tok'[i].activated)
      ]_vars

\* C36: the step in which an instance's locked_by put fails with an etag
\* conflict, on a transition another instance has locked, leaves the rows of
\* the transitions as they are.
C36_LockLoserChangesNothing ==
    [][\A o \in Instances :
          (/\ orch[o].pc = "picked"
           /\ ~(tr[orch[o].tr].live /\ orch[o].fresh)
           /\ tr[orch[o].tr].locked_by \in Instances \ {o}
           /\ lockBeforeRun(o))
          => UNCHANGED tr
      ]_vars

\* C37: every transition row that is neither finished nor aborted
\* eventually has finished set (or is aborted by a cancel, or deleted with
\* its configuration's transitions), the process of the instance being
\* started again whenever it ends.  Behaviours that fill the token table are
\* left out.
C37_UnfinishedEventuallyFinished ==
    \A t \in 1..MaxTr :
        (t \in LiveTrs /\ ~tr[t].finished /\ ~tr[t].aborted)
            ~> \/ t \in DOMAIN tr
                  /\ (tr[t].finished \/ tr[t].aborted \/ ~tr[t].live)
               \/ Len(tok) + Cardinality(Range(piv)) > MaxTok

\* C38: the run loop of a running worker never stops: whatever the outcome
\* of a pass, the listing of pending transitions failing included, another
\* pass is scheduled, so no instance is ever left up with no pass scheduled.
C38_RunLoopNeverStops ==
    \A o \in Instances : orch[o].pc # "stopped"

\* C40: the auto-expiry sweep changes a configuration only by setting
\* expired, and only on a configuration that, when the sweep writes, is
\* activated, not yet expired and has every recovery token that references
\* it expired.
C40_SweepExpiresOnlyActivated ==
    [][\A o \in Instances :
         expireUnusedRecoveryConfigs(o) =>
            \A c \in Cfgs :
                cfg'[c] # cfg[c] =>
                    /\ cfg[c].activated
                    /\ ~cfg[c].expired
                    /\ \A i \in LiveToks : tok[i].cfg = c => tok[i].expired
                    /\ cfg'[c] = [cfg[c] EXCEPT !.expired = TRUE]
      ]_vars

=============================================================================
